---- MODULE Spec2Model ----
(***************************************************************************)
(* A model of go_backend.go: the backend registry, the program model and   *)
(* module loader, the modifier engine, the action interpreter and the       *)
(* import resolver of the JSON language interpreter.                        *)
(*                                                                          *)
(* Strings that the code takes apart at "." (names, references, targets,    *)
(* file paths) are kept in dotted form: the sequence of their dot-free      *)
(* segments, so "pkg.sub.json" is <<"pkg","sub","json">> and "" is <<"">>.  *)
(* Condition strings, which the code takes apart at "==" and blanks, are    *)
(* kept as the sequence of their blank-separated words.                     *)
(***************************************************************************)
EXTENDS Integers, Sequences, FiniteSets, TLC

VARIABLES
  pc,          \* where main()/runJSONProgram stands
  stdlibFile,  \* the file stdlib.go.json
  stdlibData,  \* gb.stdlibData
  gbFunctions, \* gb.functions: operation name -> native implementation
  programFile, \* the file given to `run`
  files,       \* the other files on disk: path -> content
  heap,        \* the JSONProgram instances; heap[1] is the program being run
  pending,     \* applyModifiers: the functions not yet visited
  stack,       \* the executeFunction activations, innermost last
  result,      \* what executeFunction(program, "main") returned
  modLog,      \* history: the applyModifier calls, per function
  callLog,     \* history: the executeFunctionCall calls
  loadLog,     \* history: the LoadModule calls
  returns      \* history: the executeFunction activations that returned

vars == <<pc, stdlibFile, stdlibData, gbFunctions, programFile, files, heap,
          pending, stack, result, modLog, callLog, loadLog, returns>>

-----------------------------------------------------------------------------
(* Bounds of the model *)

MaxMods == 3
MaxActions == 3
MaxArgs == 2
MaxDepth == 4

-----------------------------------------------------------------------------
(* interface{} values: JSON data, and what the backend returns *)

Str(segs) == [k |-> "str", s |-> segs]
Nm(x) == Str(<<x>>)
Words(ws) == [k |-> "str", w |-> ws]
Num(n) == [k |-> "num", n |-> n]
IntV(n) == [k |-> "int", n |-> n]
Bool(b) == [k |-> "bool", b |-> b]
Nil == [k |-> "nil"]
Arr(a) == [k |-> "arr", a |-> a]
Obj(o) == [k |-> "obj", o |-> o]
Err(e) == [k |-> "err", e |-> e]
Opaque(fn, args) == [k |-> "native", fn |-> fn, args |-> args]

IsStr(m, key) == key \in DOMAIN m /\ m[key].k = "str"
IsArr(m, key) == key \in DOMAIN m /\ m[key].k = "arr"
IsObj(m, key) == key \in DOMAIN m /\ m[key].k = "obj"

EmptyMap == <<>>
Put(m, key, v) == [x \in DOMAIN m \cup {key} |-> IF x = key THEN v ELSE m[x]]

-----------------------------------------------------------------------------
(* strings package, on dotted strings *)

HasPrefix(s, p) == Len(s) >= 2 /\ s[1] = p
TrimPrefix(s, p) == IF HasPrefix(s, p) THEN Tail(s) ELSE s
ContainsDot(s) == Len(s) >= 2
LastSegment(s) == s[Len(s)]
JoinInit(s) == SubSeq(s, 1, Len(s) - 1)
Plus(s, ext) == Append(s, ext)

-----------------------------------------------------------------------------
(* Coercion helpers *)

Digits == [x \in {"0", "1", "2", "3", "4", "5"} |->
             CASE x = "0" -> 0 [] x = "1" -> 1 [] x = "2" -> 2
               [] x = "3" -> 3 [] x = "4" -> 4 [] x = "5" -> 5]

ParseFloat(s) ==
  IF Len(s) = 1 /\ s[1] \in DOMAIN Digits
  THEN [ok |-> TRUE, f |-> Digits[s[1]]]
  ELSE [ok |-> FALSE, f |-> 0]

toNumber(v) ==
  CASE v.k = "num" -> v.n
    [] v.k = "int" -> v.n
    [] v.k = "str" -> IF "s" \in DOMAIN v /\ ParseFloat(v.s).ok
                      THEN ParseFloat(v.s).f
                      ELSE IF "c" \in DOMAIN v /\ ParseFloat(v.c).ok
                      THEN ParseFloat(v.c).f ELSE 0
    [] v.k = "bool" -> IF v.b THEN 1 ELSE 0
    [] OTHER -> 0

-----------------------------------------------------------------------------
(* Backend registry *)

DefaultTable ==
  { <<"println", "println">>, <<"print", "print">>, <<"printf", "printf">>,
    <<"input", "input">>, <<"read_file", "readFile">>,
    <<"write_file", "writeFile">>,
    <<"add", "add">>, <<"subtract", "subtract">>, <<"multiply", "multiply">>,
    <<"divide", "divide">>, <<"power", "power">>, <<"sqrt", "sqrt">>,
    <<"abs", "abs">>, <<"floor", "floor">>, <<"ceil", "ceil">>,
    <<"round", "round">>,
    <<"concat", "concat">>, <<"length", "length">>,
    <<"substring", "substring">>, <<"to_upper", "toUpper">>,
    <<"to_lower", "toLower">>, <<"trim", "trim">>, <<"split", "split">>,
    <<"join", "join">>,
    <<"array_create", "arrayCreate">>, <<"array_push", "arrayPush">>,
    <<"array_pop", "arrayPop">>, <<"array_get", "arrayGet">>,
    <<"array_set", "arraySet">>, <<"array_length", "arrayLength">>,
    <<"array_sort", "arraySort">>, <<"array_reverse", "arrayReverse">>,
    <<"sleep", "sleep">>, <<"random", "random">>,
    <<"random_int", "randomInt">>, <<"time_now", "timeNow">>,
    <<"exit", "exit">>,
    <<"to_string", "toString">>, <<"to_number", "toNumber">>,
    <<"to_boolean", "toBoolean">>,
    <<"is_empty", "isEmpty">>, <<"is_number", "isNumber">>,
    <<"is_string", "isString">>, <<"is_array", "isArray">>,
    <<"is_boolean", "isBoolean">> }

DefaultNames == { <<e[1]>> : e \in DefaultTable }

registerDefaultFunctions ==
  [name \in DefaultNames |->
     (CHOOSE e \in DefaultTable : e[1] = name[1])[2]]

ImplTable ==
  { <<{<<"fmt", "Println">>, <<"print">>}, "println">>,
    <<{<<"fmt", "Print">>, <<"print_no_newline">>}, "print">>,
    <<{<<"fmt", "Printf">>, <<"printf">>}, "printf">>,
    <<{<<"bufio", "NewReader">>, <<"input">>}, "input">>,
    <<{<<"ioutil", "ReadFile">>, <<"read_file">>}, "readFile">>,
    <<{<<"ioutil", "WriteFile">>, <<"write_file">>}, "writeFile">>,
    <<{<<"math", "Add">>, <<"add">>}, "add">>,
    <<{<<"math", "Subtract">>, <<"subtract">>}, "subtract">>,
    <<{<<"math", "Multiply">>, <<"multiply">>}, "multiply">>,
    <<{<<"math", "Divide">>, <<"divide">>}, "divide">>,
    <<{<<"math", "Pow">>, <<"power">>}, "power">>,
    <<{<<"math", "Sqrt">>, <<"sqrt">>}, "sqrt">>,
    <<{<<"math", "Abs">>, <<"abs">>}, "abs">>,
    <<{<<"math", "Floor">>, <<"floor">>}, "floor">>,
    <<{<<"math", "Ceil">>, <<"ceil">>}, "ceil">>,
    <<{<<"math", "Round">>, <<"round">>}, "round">>,
    <<{<<"strings", "Join">>, <<"concat">>, <<"join">>}, "concat">>,
    <<{<<"len">>, <<"length">>}, "length">>,
    <<{<<"strings", "Substring">>, <<"substring">>}, "substring">>,
    <<{<<"strings", "ToUpper">>, <<"to_upper">>}, "toUpper">>,
    <<{<<"strings", "ToLower">>, <<"to_lower">>}, "toLower">>,
    <<{<<"strings", "TrimSpace">>, <<"trim">>}, "trim">>,
    <<{<<"strings", "Split">>, <<"split">>}, "split">>,
    <<{<<"make">>, <<"array_create">>}, "arrayCreate">>,
    <<{<<"append">>, <<"array_push">>}, "arrayPush">>,
    <<{<<"slice", "Pop">>, <<"array_pop">>}, "arrayPop">>,
    <<{<<"slice", "Get">>, <<"array_get">>}, "arrayGet">>,
    <<{<<"slice", "Set">>, <<"array_set">>}, "arraySet">>,
    <<{<<"array_length">>}, "arrayLength">>,
    <<{<<"sort", "Sort">>, <<"array_sort">>}, "arraySort">>,
    <<{<<"slice", "Reverse">>, <<"array_reverse">>}, "arrayReverse">>,
    <<{<<"time", "Sleep">>, <<"sleep">>}, "sleep">>,
    <<{<<"rand", "Float64">>, <<"random">>}, "random">>,
    <<{<<"rand", "Intn">>, <<"random_int">>}, "randomInt">>,
    <<{<<"time", "Now">>, <<"time_now">>}, "timeNow">>,
    <<{<<"os", "Exit">>, <<"exit">>}, "exit">>,
    <<{<<"fmt", "Sprintf">>, <<"to_string">>}, "toString">>,
    <<{<<"strconv", "ParseFloat">>, <<"to_number">>}, "toNumber">>,
    <<{<<"strconv", "ParseBool">>, <<"to_boolean">>}, "toBoolean">>,
    <<{<<"utils", "IsEmpty">>, <<"is_empty">>}, "isEmpty">>,
    <<{<<"utils", "IsNumber">>, <<"is_number">>}, "isNumber">>,
    <<{<<"utils", "IsString">>, <<"is_string">>}, "isString">>,
    <<{<<"utils", "IsArray">>, <<"is_array">>}, "isArray">>,
    <<{<<"utils", "IsBoolean">>, <<"is_boolean">>}, "isBoolean">> }

NoImpl == "nil"

getFunctionByImplName(implName) ==
  IF \E e \in ImplTable : implName \in e[1]
  THEN (CHOOSE e \in ImplTable : implName \in e[1])[2]
  ELSE NoImpl

(* loadStdlib: what gb.stdlibData holds after reading stdlib.go.json. A map
   is [isNil, m]; json.Unmarshal of the text `null` leaves a nil map. *)
loadStdlib(file) ==
  CASE file.kind = "absent" -> [isNil |-> FALSE, m |-> EmptyMap]
    [] file.kind = "garbage" -> [isNil |-> FALSE, m |-> EmptyMap]
    [] file.kind = "null" -> [isNil |-> TRUE, m |-> EmptyMap]
    [] OTHER -> [isNil |-> FALSE, m |-> file.data]

registerFromStdlib(data) ==
  IF IsObj(data, "functions")
  THEN LET functions == data["functions"].o
           usable == { funcName \in DOMAIN functions :
                         /\ functions[funcName].k = "obj"
                         /\ IsStr(functions[funcName].o, "implementation")
                         /\ getFunctionByImplName(
                              functions[funcName].o["implementation"].s) # NoImpl }
       IN [funcName \in usable |->
             getFunctionByImplName(functions[funcName].o["implementation"].s)]
  ELSE EmptyMap

registerFunctions(data) ==
  IF ~data.isNil THEN registerFromStdlib(data.m) ELSE registerDefaultFunctions

(* A string given by its bytes, for the operations that index into it *)
Text(chars) == [k |-> "str", c |-> chars]
IsText(v) == v.k = "str" /\ "c" \in DOMAIN v

(* A run-time panic of the Go runtime; nothing in the program recovers it *)
Panic == [k |-> "panic"]

Abs(n) == IF n < 0 THEN 0 - n ELSE n

(* a / b of two float64 that are whole numbers, b # 0 *)
Quotient(a, b) ==
  IF a % Abs(b) = 0
  THEN Num((a \div Abs(b)) * (IF b < 0 THEN 0 - 1 ELSE 1))
  ELSE [k |-> "num", num |-> a, den |-> b]

DigitChars == <<"0", "1", "2", "3", "4", "5", "6", "7", "8", "9">>

(* The values toString is computed for here: byte strings, booleans and
   whole numbers of one digit *)
Printable(v) ==
  \/ IsText(v)
  \/ v.k = "bool"
  \/ v.k \in {"num", "int"} /\ "n" \in DOMAIN v /\ Abs(v.n) <= 9

toString(v) ==
  CASE IsText(v) -> v.c
    [] v.k = "bool" -> IF v.b THEN <<"t", "r", "u", "e">>
                       ELSE <<"f", "a", "l", "s", "e">>
    [] OTHER -> IF v.n < 0 THEN <<"-", DigitChars[Abs(v.n) + 1]>>
                ELSE <<DigitChars[v.n + 1]>>

divide(args) ==
  IF Len(args) < 2 THEN Num(0)
  ELSE IF toNumber(args[2]) = 0 THEN Err("DivisionByZero")
  ELSE Quotient(toNumber(args[1]), toNumber(args[2]))

(* arrayGet, were the shape of the first argument tested before the count *)
arrayGetShapeFirst(args) ==
  IF Len(args) >= 1 /\ args[1].k # "arr" THEN Err("NotAnArray")
  ELSE IF Len(args) < 2 THEN Nil
  ELSE IF toNumber(args[2]) < 0 \/ toNumber(args[2]) >= Len(args[1].a)
  THEN Err("IndexOutOfBounds")
  ELSE args[1].a[toNumber(args[2]) + 1]

arrayGet(args) ==
  IF Len(args) < 2 THEN Nil
  ELSE IF args[1].k # "arr" THEN Err("NotAnArray")
  ELSE IF toNumber(args[2]) < 0 \/ toNumber(args[2]) >= Len(args[1].a)
  THEN Err("IndexOutOfBounds")
  ELSE args[1].a[toNumber(args[2]) + 1]

(* s[start:end] of Go: the bytes start..end-1, and a panic when the bounds
   are not 0 <= start <= end <= len(s) *)
Slice(s, start, end) ==
  IF 0 <= start /\ start <= end /\ end <= Len(s)
  THEN Text(SubSeq(s, start + 1, end))
  ELSE Panic

substring(args) ==
  IF Len(args) < 2 THEN Text(<<>>)
  ELSE LET s == toString(args[1])
           start == IF toNumber(args[2]) < 0 THEN 0 ELSE toNumber(args[2])
       IN IF start >= Len(s) THEN Text(<<>>)
          ELSE IF Len(args) > 2
          THEN Slice(s, start, IF toNumber(args[3]) > Len(s) THEN Len(s)
                               ELSE toNumber(args[3]))
          ELSE Slice(s, start, Len(s))

(* The native implementations. I/O, time, random and the remaining string
   and list operations are leaves whose result is kept opaque. *)
Invoke(fn, args) ==
  CASE fn \in {"println", "print"} -> Nil
    [] fn = "add" -> IF Len(args) < 2 THEN Num(0)
                     ELSE Num(toNumber(args[1]) + toNumber(args[2]))
    [] fn = "subtract" -> IF Len(args) < 2 THEN Num(0)
                          ELSE Num(toNumber(args[1]) - toNumber(args[2]))
    [] fn = "multiply" -> IF Len(args) < 2 THEN Num(0)
                          ELSE Num(toNumber(args[1]) * toNumber(args[2]))
    [] fn = "divide" -> divide(args)
    [] fn = "arrayCreate" -> Arr(args)
    [] fn = "arrayGet" -> arrayGet(args)
    [] fn = "substring" /\ (Len(args) < 2 \/ Printable(args[1])) ->
         substring(args)
    [] fn = "isString" -> IF Len(args) = 0 THEN Bool(FALSE)
                          ELSE Bool(args[1].k = "str")
    [] fn = "isArray" -> IF Len(args) = 0 THEN Bool(FALSE)
                         ELSE Bool(args[1].k = "arr")
    [] OTHER -> Opaque(fn, args)

ExecuteFunction(fns, funcName, args) ==
  IF funcName \in DOMAIN fns
  THEN Invoke(fns[funcName], args)
  ELSE Err("UndefinedFunction")

-----------------------------------------------------------------------------
(* Program model *)

getField(data, key, default) == IF key \in DOMAIN data THEN data[key] ELSE default

NewJSONProgram(data) ==
  [ Metadata |-> getField(data, "metadata", EmptyMap),
    Imports |-> getField(data, "imports", EmptyMap),
    Functions |-> getField(data, "functions", EmptyMap),
    Modifiers |-> getField(data, "modifiers", <<>>),
    LoadedModules |-> EmptyMap ]

HasFunction(jp, name) == name \in DOMAIN jp.Functions

-----------------------------------------------------------------------------
(* Modifier engine *)

ConditionFields ==
  [x \in {"function.args", "function.return", "function.modifiers",
          "function.visibility"} |->
     CASE x = "function.args" -> "args"
       [] x = "function.return" -> "return"
       [] x = "function.modifiers" -> "modifiers"
       [] x = "function.visibility" -> "visibility"]

evaluateCondition(funcData, condition) ==
  LET words == condition.w
      eqs == { i \in 1..Len(words) : words[i] = "==" }
  IN IF (\E i \in 1..Len(words) : words[i] = "undefined") /\ Cardinality(eqs) = 1
     THEN LET varName == SubSeq(words, 1, (CHOOSE i \in eqs : TRUE) - 1)
          IN IF Len(varName) = 1 /\ varName[1] \in DOMAIN ConditionFields
             THEN ConditionFields[varName[1]] \notin DOMAIN funcData
             ELSE TRUE
     ELSE TRUE

executeModifierAction(funcData, action) ==
  IF ~IsStr(action, "type") \/ ~IsStr(action, "target")
  THEN funcData
  ELSE IF action["type"] = Nm("assignment") /\ HasPrefix(action["target"].s, "function")
       THEN Put(funcData, action["target"].s[2], getField(action, "value", Nil))
       ELSE funcData

RECURSIVE executeModifierActions(_, _, _)
executeModifierActions(funcData, actions, i) ==
  IF i > Len(actions) THEN funcData
  ELSE executeModifierActions(
         IF actions[i].k = "obj"
         THEN executeModifierAction(funcData, actions[i].o) ELSE funcData,
         actions, i + 1)

ConditionKey == "condiction"

(* findModifier, were an unmatched name to fall back on the first definition *)
findModifierOrFirst(Modifiers, modifierName) ==
  LET found == { i \in 1..Len(Modifiers) :
                   IsStr(Modifiers[i], "name") /\ Modifiers[i]["name"] = modifierName }
  IN IF found = {} THEN (IF Modifiers = <<>> THEN 0 ELSE 1)
     ELSE CHOOSE i \in found : \A j \in found : i <= j

(* The first definition named modifierName, 0 when there is none *)
findModifier(Modifiers, modifierName) ==
  LET found == { i \in 1..Len(Modifiers) :
                   IsStr(Modifiers[i], "name") /\ Modifiers[i]["name"] = modifierName }
  IN IF found = {} THEN 0 ELSE CHOOSE i \in found : \A j \in found : i <= j

conditionHolds(modifier, funcData) ==
  ~(IsStr(modifier, ConditionKey) /\ ~evaluateCondition(funcData, modifier[ConditionKey]))

(* Whether applyModifier reaches the actions of the modifier *)
runsActions(Modifiers, funcData, modifierName) ==
  /\ findModifier(Modifiers, modifierName) # 0
  /\ conditionHolds(Modifiers[findModifier(Modifiers, modifierName)], funcData)

applyModifier(Modifiers, funcData, modifierName) ==
  IF ~runsActions(Modifiers, funcData, modifierName) THEN funcData
  ELSE LET modifier == Modifiers[findModifier(Modifiers, modifierName)]
       IN IF IsArr(modifier, "actions")
          THEN executeModifierActions(funcData, modifier["actions"].a, 1)
          ELSE funcData

(* modifierNames, were each name handed over once only *)
modifierNamesOnce(funcData) ==
  IF IsArr(funcData, "modifiers")
  THEN LET all == SelectSeq(funcData["modifiers"].a, LAMBDA m : m.k = "str")
           keep == { i \in 1..Len(all) : \A j \in 1..(i - 1) : all[j] # all[i] }
       IN [n \in 1..Cardinality(keep) |->
             all[CHOOSE i \in keep : Cardinality({ j \in keep : j < i }) = n - 1]]
  ELSE <<>>

(* The names applyModifiers hands to applyModifier for one function, in the
   order it does. *)
modifierNames(funcData) ==
  IF IsArr(funcData, "modifiers")
  THEN SelectSeq(funcData["modifiers"].a, LAMBDA m : m.k = "str")
  ELSE <<>>

RECURSIVE applyEach(_, _, _, _, _)
applyEach(Modifiers, funcData, names, i, log) ==
  IF i > Len(names) THEN [funcData |-> funcData, log |-> log]
  ELSE LET after == applyModifier(Modifiers, funcData, names[i])
       IN applyEach(Modifiers, after, names, i + 1,
                    Append(log, [modifier |-> names[i], before |-> funcData,
                                 ran |-> runsActions(Modifiers, funcData, names[i]),
                                 after |-> after]))

-----------------------------------------------------------------------------
(* Module loader *)

(* newModule, were the modifiers of the module applied to its functions *)
newModuleModified(data) ==
  LET jp == NewJSONProgram(data)
  IN [jp EXCEPT !.Functions =
        [f \in DOMAIN jp.Functions |->
           applyEach(jp.Modifiers, jp.Functions[f],
                     modifierNames(jp.Functions[f]), 1, <<>>).funcData]]

(* The program LoadModule makes of a module file: built, and stored as it
   was built *)
newModule(data) == NewJSONProgram(data)

(* possiblePaths, were the last segment tried first *)
possiblePathsShortFirst(modulePath) ==
  << <<LastSegment(modulePath), "json">>,
     <<LastSegment(modulePath)>>,
     Plus(modulePath, "json"),
     modulePath >>

possiblePaths(modulePath) ==
  << Plus(modulePath, "json"),
     modulePath,
     <<LastSegment(modulePath), "json">>,
     <<LastSegment(modulePath)>> >>

NoFile == <<"">>

(* os.Stat succeeds on whatever exists, a directory included. *)
moduleFileOf(fs, modulePath) ==
  LET paths == possiblePaths(modulePath)
      hits == { i \in 1..Len(paths) : paths[i] \in DOMAIN fs }
  IN IF hits = {} THEN NoFile
     ELSE paths[CHOOSE i \in hits : \A j \in hits : i <= j]

isLoaded(jp, modulePath) == modulePath \in DOMAIN jp.LoadedModules

(* cacheKey, were the cache keyed by the file found *)
cacheKeyByFile(modulePath, moduleFile) == moduleFile

cacheKey(modulePath, moduleFile) == modulePath

(* LoadModule on heap[p]: the heap afterwards, the instance returned (0 with
   an error) and the record of the call. *)
LoadModule(hp, fs, p, modulePath) ==
  LET jp == hp[p]
      moduleFile == moduleFileOf(fs, modulePath)
      event(outcome, file, module) ==
        [prog |-> p, modulePath |-> modulePath, outcome |-> outcome,
         file |-> file, module |-> module]
  IN IF isLoaded(jp, modulePath)
     THEN [heap |-> hp, module |-> jp.LoadedModules[modulePath],
           event |-> event("cached", NoFile, jp.LoadedModules[modulePath])]
     ELSE IF moduleFile = NoFile
     THEN [heap |-> hp, module |-> 0, event |-> event("ModuleNotFound", NoFile, 0)]
     ELSE IF fs[moduleFile].kind = "dir"
     THEN [heap |-> hp, module |-> 0,
           event |-> event("ModuleReadError", moduleFile, 0)]
     ELSE IF fs[moduleFile].kind # "json"
     THEN [heap |-> hp, module |-> 0,
           event |-> event("ModuleParseError", moduleFile, 0)]
     ELSE LET new == Len(hp) + 1
          IN [heap |-> Append(
                [hp EXCEPT ![p].LoadedModules =
                   Put(@, cacheKey(modulePath, moduleFile), new)],
                newModule(fs[moduleFile].data)),
              module |-> new,
              event |-> event("loaded", moduleFile, new)]

-----------------------------------------------------------------------------
(* Action interpreter and import resolver *)

ScalarTypes ==
  [x \in {"String", "Number", "Boolean"} |->
     CASE x = "String" -> "str" [] x = "Number" -> "num" [] x = "Boolean" -> "bool"]

evalArg(argData) ==
  IF argData.k # "obj" THEN argData
  ELSE IF ~IsStr(argData.o, "type") THEN argData
  ELSE LET argType == argData.o["type"].s
           kinds == { x \in DOMAIN ScalarTypes :
                        argType \in {<<x>>, <<"imports", x>>} }
       IN IF kinds # {}
          THEN IF "value" \in DOMAIN argData.o
                  /\ argData.o["value"].k = ScalarTypes[CHOOSE x \in kinds : TRUE]
               THEN argData.o["value"]
               ELSE Nil
          ELSE argData

evalArgs(argsData) == [i \in 1..Len(argsData) |-> evalArg(argsData[i])]

NoModule == <<>>
NoKey == <<>>

Plan(tier, via, module, name, key) ==
  [tier |-> tier, via |-> via, module |-> module, name |-> name, key |-> key]

(* splitReference, were the reference cut at its first "." *)
splitReferenceAtFirst(ref) == [module |-> <<ref[1]>>, func |-> Tail(ref)]

splitReference(ref) == [module |-> JoinInit(ref), func |-> <<LastSegment(ref)>>]

backendName(ref) ==
  IF HasPrefix(ref, "jsonlang")
  THEN LET backendFunc == TrimPrefix(ref, "jsonlang")
       IN IF ContainsDot(backendFunc) THEN <<LastSegment(backendFunc)>>
          ELSE backendFunc
  ELSE <<LastSegment(ref)>>

(* What the code does with an import path: a module call, or a backend
   operation. *)
byReference(tier, ref, key) ==
  IF ContainsDot(ref) /\ ~HasPrefix(ref, "jsonlang")
  THEN Plan(tier, "module", splitReference(ref).module, splitReference(ref).func, key)
  ELSE Plan(tier, "backend", NoModule, backendName(ref), key)

(* tierOf, were the imports map consulted before the functions *)
tierOfImportsFirst(isFunction, isImport, isPrefixed) ==
  IF isImport THEN 2
  ELSE IF isFunction THEN 1
  ELSE IF isPrefixed THEN 3
  ELSE 4

tierOf(isFunction, isImport, isPrefixed) ==
  IF isFunction THEN 1
  ELSE IF isImport THEN 2
  ELSE IF isPrefixed THEN 3
  ELSE 4

(* importPath, were the entry's value taken *)
importPathValue(key, value) == value

(* The string the reverse scan takes from the matching imports entry. *)
importPath(key, value) == key

(* The ways executeFunctionCall can resolve `function` on jp: one, unless the
   reverse scan of the imports map meets several matching entries, where the
   enumeration order of the map decides. *)
plans(jp, function) ==
  LET tier == tierOf(HasFunction(jp, function), function \in DOMAIN jp.Imports,
                     HasPrefix(function, "imports"))
      funcName == TrimPrefix(function, "imports")
      matches == { key \in DOMAIN jp.Imports : jp.Imports[key] = funcName }
  IN CASE tier = 1 -> { Plan(1, "user", NoModule, function, function) }
       [] tier = 2 -> { byReference(2, jp.Imports[function], function) }
       [] tier = 3 ->
            IF matches = {}
            THEN { Plan(3, "backend", NoModule, funcName, NoKey) }
            ELSE { IF importPath(key, jp.Imports[key]) # <<"">>
                   THEN byReference(3, importPath(key, jp.Imports[key]), key)
                   ELSE Plan(3, "backend", NoModule, funcName, key) :
                   key \in matches }
       [] OTHER -> { Plan(4, "backend", NoModule, function, NoKey) }

isCall(action) ==
  /\ action.k = "obj"
  /\ IsStr(action.o, "type")
  /\ action.o["type"] = Nm("function_call")

actionsOf(hp, fr) == hp[fr.prog].Functions[fr.func]["actions"].a

Frame(prog, func, args) ==
  [prog |-> prog, func |-> func, args |-> args, pc |-> 1, result |-> Nil,
   hist |-> <<>>]

(* executeFunction up to its loop: an Error value, or a new activation. *)
enter(hp, prog, func, args) ==
  IF func \notin DOMAIN hp[prog].Functions
  THEN [kind |-> "value", value |-> Err("UndefinedFunction")]
  ELSE IF ~IsArr(hp[prog].Functions[func], "actions")
  THEN [kind |-> "value", value |-> Err("MissingActions")]
  ELSE [kind |-> "enter", frame |-> Frame(prog, func, args)]

(* nextIndex, were an Error to end the loop *)
nextIndexUnlessError(i, n, value) == IF value.k = "err" THEN n + 1 ELSE i + 1

(* The loop of executeFunction goes on to the next action whatever the call
   returned. *)
nextIndex(i, n, value) == i + 1

deliver(fr, value, n) ==
  [fr EXCEPT !.hist = Append(@, [index |-> fr.pc, result |-> value]),
             !.result = value,
             !.pc = nextIndex(fr.pc, n, value)]

(* executeFunctionCall of `action` on heap[p], resolved as `plan`. *)
executeFunctionCall(hp, fs, fns, p, action, plan) ==
  LET args == evalArgs(IF IsArr(action, "args") THEN action["args"].a ELSE <<>>)
      load == LoadModule(hp, fs, p, plan.module)
  IN CASE plan.via = "user" ->
            [heap |-> hp, loads |-> <<>>, args |-> args,
             out |-> enter(hp, p, plan.name, args)]
       [] plan.via = "backend" ->
            [heap |-> hp, loads |-> <<>>, args |-> args,
             out |-> [kind |-> "value",
                      value |-> ExecuteFunction(fns, plan.name, args)]]
       [] OTHER ->
            [heap |-> load.heap, loads |-> <<load.event>>, args |-> args,
             out |-> IF load.module = 0
                     THEN [kind |-> "value", value |-> Err(load.event.outcome)]
                     ELSE IF HasFunction(load.heap[load.module], plan.name)
                     THEN enter(load.heap, load.module, plan.name, args)
                     ELSE [kind |-> "value",
                           value |-> Err("ModuleFunctionNotFound")]]

-----------------------------------------------------------------------------
(* The inputs: descriptor files, programs and module files *)

BoundedSeq(S, n) == UNION { [1..m -> S] : m \in 0..n }

Call(function, args) ==
  Obj([type |-> Nm("function_call"), function |-> Str(function), args |-> Arr(args)])
Lit(type, value) == Obj([type |-> Str(type), value |-> value])
Assign(target, value) ==
  Obj([type |-> Nm("assignment"), target |-> Str(target), value |-> value])
Impl(implId) == Obj([implementation |-> Str(implId)])

Absent == [kind |-> "absent"]
Garbage == [kind |-> "garbage"]
Directory == [kind |-> "dir"]
Json(data) == [kind |-> "json", data |-> data]

(* stdlib.go.json with every default name bound to the id of the same name *)
IdentityDescriptor ==
  Json([functions |-> Obj([name \in DefaultNames |-> Impl(name)])])

(* stdlib.go.json binding a few names to Go-style ids, with one id the table
   does not know and one entry that is no object *)
GoDescriptor ==
  Json([functions |-> Obj(
    [name \in {<<"println">>, <<"print">>, <<"add">>, <<"subtract">>,
               <<"multiply">>, <<"array_create">>, <<"join">>, <<"bogus">>,
               <<"broken">>} |->
       CASE name = <<"println">> -> Impl(<<"fmt", "Println">>)
         [] name = <<"print">> -> Impl(<<"fmt", "Print">>)
         [] name = <<"add">> -> Impl(<<"math", "Add">>)
         [] name = <<"subtract">> -> Impl(<<"math", "Subtract">>)
         [] name = <<"multiply">> -> Impl(<<"math", "Multiply">>)
         [] name = <<"array_create">> -> Impl(<<"make">>)
         [] name = <<"join">> -> Impl(<<"strings", "Join">>)
         [] name = <<"bogus">> -> Impl(<<"no", "such">>)
         [] OTHER -> Num(1)])])

StdlibFiles ==
  { Absent, Garbage, [kind |-> "null"], Json(EmptyMap), IdentityDescriptor,
    GoDescriptor }

Main == <<"main">>

AddProgram ==
  [functions |-> (Main :> [actions |-> Arr(<<Call(<<"add">>,
       <<Lit(<<"Number">>, Num(2)), Lit(<<"Number">>, Num(3))>>)>>)])]

NoMainProgram ==
  [functions |-> (<<"helper">> :> [actions |-> Arr(<<>>)])]

(* Modifier definitions. ArgsDefault is the modifier of the specification's
   example, written with the key `condition`; ArgsDefaultAsRead is the same
   with the key applyModifier reads. *)
ArgsDefault ==
  [name |-> Nm("M"),
   condition |-> Words(<<"function.args", "==", "undefined">>),
   actions |-> Arr(<<Assign(<<"function", "args">>, Arr(<<>>))>>)]

ArgsDefaultAsRead ==
  [name |-> Nm("M"),
   condiction |-> Words(<<"function.args", "==", "undefined">>),
   actions |-> Arr(<<Assign(<<"function", "args">>, Arr(<<>>))>>)]

MakePublic ==
  [name |-> Nm("A"),
   actions |-> Arr(<<Assign(<<"function", "visibility">>, Nm("public"))>>)]

MakePrivate ==
  [name |-> Nm("B"),
   condiction |-> Words(<<"function.visibility", "==", "undefined">>),
   actions |-> Arr(<<Assign(<<"function", "visibility">>, Nm("private")),
                     Assign(<<"args">>, Nm("ignored")),
                     Obj([type |-> Nm("log"), target |-> Str(<<"function", "args">>)]),
                     Num(0)>>)]

WhenTrue ==
  [name |-> Nm("C"),
   condiction |-> Words(<<"true">>),
   actions |-> Arr(<<Assign(<<"function", "return">>, Nm("void"))>>)]

MakePublicAgain ==
  [name |-> Nm("A"),
   actions |-> Arr(<<Assign(<<"function", "visibility">>, Nm("shadowed"))>>)]

ModifierLists ==
  { <<WhenTrue, MakePrivate, ArgsDefault, MakePublic, MakePublicAgain>>,
    <<WhenTrue, MakePrivate, ArgsDefaultAsRead, MakePublic, MakePublicAgain>> }

ModifierNamePool == { Nm("M"), Nm("A"), Nm("B"), Nm("ghost") }

ListedModifiers ==
  BoundedSeq(ModifierNamePool, MaxMods) \cup { <<Num(7), Nm("C"), Nm("A")>> }

Target == <<"f">>

Unmatched == <<"g">>

(* Programs for the modifier pass: function f lists `listed`, with or without
   args and visibility; function g lists a name no definition has; main does
   nothing. *)
ModifierProgram(mods, listed, fields) ==
  [functions |->
     (Main :> [actions |-> Arr(<<>>)]) @@
     (Unmatched :> [actions |-> Arr(<<>>),
                    modifiers |-> Arr(<<Nm("ghost"), Num(3)>>)]) @@
     (Target :> ([x \in fields \cup {"actions", "modifiers"} |->
        CASE x = "actions" -> Arr(<<>>)
          [] x = "modifiers" -> Arr(listed)
          [] x = "args" -> Arr(<<Nm("x")>>)
          [] OTHER -> Nm("private")])),
   modifiers |-> mods]

ModifierPrograms ==
  { ModifierProgram(mods, listed, fields) :
      mods \in ModifierLists, listed \in ListedModifiers,
      fields \in SUBSET {"args", "visibility"} }
  \cup { [functions |-> ModifierProgram(<<>>, <<Nm("M")>>, {}).functions] }

(* Module files. Each helper returns a number that tells the files apart;
   every module declares a modifier and lists it. *)
NumArg(n) == Lit(<<"Number">>, Num(n))

ModuleData(n) ==
  [functions |->
     (<<"helper">> :> [modifiers |-> Arr(<<Nm("M")>>),
                       actions |-> Arr(<<Call(<<"add">>, <<NumArg(n), NumArg(0)>>)>>)]),
   modifiers |-> <<ArgsDefaultAsRead>>]

NestingModuleData ==
  [imports |-> (<<"deep">> :> <<"leaf", "fn">>),
   functions |->
     (<<"helper">> :> [modifiers |-> Arr(<<Nm("M")>>),
                       actions |-> Arr(<<Call(<<"deep">>, <<>>),
                                         Call(<<"add">>, <<NumArg(3), NumArg(0)>>)>>)]),
   modifiers |-> <<ArgsDefaultAsRead>>]

LeafModuleData ==
  [functions |->
     (<<"fn">> :> [actions |-> Arr(<<Call(<<"add">>, <<NumArg(5), NumArg(0)>>)>>)])]

PkgSubJson == <<"pkg", "sub", "json">>
PkgSub == <<"pkg", "sub">>
SubJson == <<"sub", "json">>
Sub == <<"sub">>
LeafJson == <<"leaf", "json">>

FileSystems ==
  { [path \in present \cup {LeafJson} |->
       CASE path = LeafJson -> Json(LeafModuleData)
         [] path = PkgSubJson -> Json(ModuleData(1))
         [] path = PkgSub -> Json(ModuleData(2))
         [] path = SubJson -> IF SubJson \in broken THEN Garbage
                              ELSE Json(NestingModuleData)
         [] OTHER -> IF Sub \in broken THEN Directory ELSE Json(ModuleData(4))] :
      present \in SUBSET {PkgSubJson, PkgSub, SubJson, Sub},
      broken \in SUBSET {SubJson, Sub} }

(* A program whose main calls names of every kind the resolver tells apart *)
ResolverImports ==
  [name \in { <<"plus">>, <<"h">>, <<"h2">>, <<"gone">>, <<"bare">>, <<"jl">>,
              <<"shadow">>, <<"imports", "k">>, <<"imports", "own">>,
              <<"jsonlang", "math", "multiply">>, <<"pkg", "sub", "helper">>,
              <<"">>, <<"jsonlang", "math", "add">>, <<"sub", "helper">> } |->
     CASE name = <<"plus">> -> <<"jsonlang", "math", "add">>
       [] name = <<"h">> -> <<"pkg", "sub", "helper">>
       [] name = <<"h2">> -> <<"sub", "helper">>
       [] name = <<"gone">> -> <<"pkg", "sub", "nothere">>
       [] name = <<"bare">> -> <<"add">>
       [] name = <<"jl">> -> <<"jsonlang", "multiply">>
       [] name = <<"shadow">> -> <<"jsonlang", "math", "multiply">>
       [] name = <<"imports", "k">> -> <<"jsonlang", "math", "subtract">>
       [] name = <<"imports", "own">> -> <<"jsonlang", "math", "subtract">>
       [] name = <<"jsonlang", "math", "multiply">> -> <<"times">>
       [] name = <<"pkg", "sub", "helper">> -> <<"hh">>
       [] name = <<"">> -> <<"e">>
       [] name = <<"jsonlang", "math", "add">> -> <<"dup">>
       [] OTHER -> <<"dup">>]

ResolverCalls ==
  << Call(<<"plus">>, <<NumArg(2), NumArg(3)>>),
     Call(<<"h">>, <<>>),
     Call(<<"h2">>, <<>>),
     Call(<<"h">>, <<>>),
     Call(<<"gone">>, <<>>),
     Call(<<"bare">>, <<NumArg(1), NumArg(2)>>),
     Call(<<"jl">>, <<NumArg(2), NumArg(2)>>),
     Call(<<"shadow">>, <<>>),
     Call(<<"subtract">>, <<NumArg(5), NumArg(1)>>),
     Call(<<"imports", "k">>, <<NumArg(5), NumArg(1)>>),
     Call(<<"imports", "own">>, <<>>),
     Call(<<"imports", "times">>, <<NumArg(2), NumArg(3)>>),
     Call(<<"imports", "hh">>, <<>>),
     Call(<<"imports", "e">>, <<>>),
     Call(<<"imports", "dup">>, <<NumArg(1), NumArg(1)>>),
     Call(<<"imports", "add">>, <<NumArg(1), NumArg(2)>>),
     Call(<<"imports", "jsonlang", "math", "add">>, <<NumArg(1), NumArg(2)>>),
     Call(<<"imports", "subtract">>, <<NumArg(3), NumArg(1)>>),
     Call(<<"add">>, <<NumArg(2), NumArg(2)>>),
     Call(<<"noacts">>, <<>>),
     Call(<<"nosuch">>, <<>>) >>

ResolverProgram ==
  [imports |-> ResolverImports,
   functions |->
     (Main :> [actions |-> Arr(ResolverCalls)]) @@
     (<<"shadow">> :> [actions |-> Arr(<<Call(<<"add">>, <<NumArg(1), NumArg(1)>>)>>)]) @@
     (<<"subtract">> :> [actions |-> Arr(<<Call(<<"add">>, <<NumArg(4), NumArg(0)>>)>>)]) @@
     (<<"imports", "own">> :>
        [actions |-> Arr(<<Call(<<"println">>, <<Lit(<<"String">>, Nm("own"))>>)>>)]) @@
     (<<"noacts">> :> [args |-> Arr(<<>>)])]

(* Programs whose main is any short list of actions *)
ActionPool ==
  { Call(<<"add">>, <<NumArg(2), NumArg(3)>>),
    Call(<<"nosuch">>, <<>>),
    Call(<<"f">>, <<>>),
    Call(<<"loop">>, <<>>),
    Obj([type |-> Nm("literal"), value |-> Num(1)]),
    Num(1),
    Obj([type |-> Nm("function_call")]) }

InterpreterProgram(actions) ==
  [functions |->
     (Main :> [actions |-> Arr(actions)]) @@
     (<<"loop">> :> [actions |-> Arr(<<Call(<<"loop">>, <<>>)>>)]) @@
     (<<"f">> :> [actions |-> Arr(<<Call(<<"add">>, <<NumArg(1), NumArg(1)>>),
                                    Obj([value |-> Num(1)]),
                                    Obj([type |-> Nm("return"), value |-> Num(9)]),
                                    Obj([type |-> Num(2)])>>)])]

(* Programs whose main makes one call with any short list of arguments *)
ArgPool ==
  { Lit(<<"String">>, Nm("hi")),
    Lit(<<"imports", "Number">>, Num(2)),
    Lit(<<"Boolean">>, Bool(TRUE)),
    Lit(<<"String">>, Num(5)),
    Obj([type |-> Nm("Number")]),
    Lit(<<"imports", "Boolean">>, Nm("true")),
    Obj([value |-> Num(1)]),
    Obj([type |-> Num(1), value |-> Num(1)]),
    Lit(<<"List">>, Arr(<<Num(1)>>)),
    Num(4),
    Nil }

ArgumentProgram(args) ==
  [functions |-> (Main :> [actions |-> Arr(<<Call(<<"array_create">>, args)>>)])]

(* Programs whose main calls one backend operation on raw operands *)
OperandPool ==
  { Num(0 - 1), Num(0), Num(1), Num(5),
    Arr(<<Num(1), Num(2), Num(3)>>),
    Text(<<"a", "b", "c">>),
    Nm("0"),
    Nil }

Operations == { <<"divide">>, <<"array_get">>, <<"add">>, <<"substring">> }

OperationProgram(operation, operands) ==
  [functions |-> (Main :> [actions |-> Arr(<<Call(operation, operands)>>)])]

InitBackendCases ==
  /\ stdlibFile \in StdlibFiles
  /\ programFile \in {Absent, Garbage, Json(AddProgram), Json(NoMainProgram)}
  /\ files = EmptyMap

InitModifierCases ==
  /\ stdlibFile = GoDescriptor
  /\ programFile \in { Json(d) : d \in ModifierPrograms }
  /\ files = EmptyMap

InitResolverCases ==
  /\ stdlibFile = GoDescriptor
  /\ programFile = Json(ResolverProgram)
  /\ files \in FileSystems

InitInterpreterCases ==
  /\ stdlibFile = GoDescriptor
  /\ programFile \in { Json(InterpreterProgram(actions)) :
                         actions \in BoundedSeq(ActionPool, MaxActions) }
  /\ files = EmptyMap

InitArgumentCases ==
  /\ stdlibFile = GoDescriptor
  /\ programFile \in { Json(ArgumentProgram(args)) :
                         args \in BoundedSeq(ArgPool, MaxArgs) }
  /\ files = EmptyMap

InitOperationCases ==
  /\ stdlibFile = IdentityDescriptor
  /\ programFile \in { Json(OperationProgram(operation, operands)) :
                         operation \in Operations,
                         operands \in BoundedSeq(OperandPool, MaxArgs + 1) }
  /\ files = EmptyMap

(* The state main() starts in *)
Fresh ==
  /\ pc = "start"
  /\ stdlibData = [isNil |-> FALSE, m |-> EmptyMap]
  /\ gbFunctions = EmptyMap
  /\ heap = <<>>
  /\ pending = {}
  /\ stack = <<>>
  /\ result = Nil
  /\ modLog = EmptyMap
  /\ callLog = <<>>
  /\ loadLog = <<>>
  /\ returns = <<>>

Init ==
  /\ Fresh
  /\ \/ InitBackendCases
     \/ InitModifierCases
     \/ InitResolverCases
     \/ InitInterpreterCases
     \/ InitArgumentCases
     \/ InitOperationCases

(* The runs followed to their end: short action lists, substring on a few
   operands, and the resolver program over two sets of module files *)
InitRunCases ==
  \/ /\ stdlibFile = GoDescriptor
     /\ programFile \in { Json(InterpreterProgram(actions)) :
                            actions \in BoundedSeq(ActionPool, MaxActions - 1) }
     /\ files = EmptyMap
  \/ /\ stdlibFile = IdentityDescriptor
     /\ programFile \in { Json(OperationProgram(<<"substring">>, operands)) :
                            operands \in BoundedSeq({Text(<<"a", "b", "c">>),
                                                     Num(0), Num(2)}, MaxArgs + 1) }
     /\ files = EmptyMap
  \/ /\ stdlibFile = GoDescriptor
     /\ programFile = Json(ResolverProgram)
     /\ files \in { fs \in FileSystems :
                      /\ DOMAIN fs \in { {LeafJson, SubJson},
                                         {LeafJson, PkgSubJson, SubJson} }
                      /\ fs[SubJson].kind = "json" }

LiveInit == Fresh /\ InitRunCases

-----------------------------------------------------------------------------
(* The steps of main() for the command `run` *)

NewGoBackend ==
  /\ pc = "start"
  /\ stdlibData' = loadStdlib(stdlibFile)
  /\ gbFunctions' = registerFunctions(loadStdlib(stdlibFile))
  /\ pc' = "backend"
  /\ UNCHANGED <<stdlibFile, programFile, files, heap, pending, stack, result,
                 modLog, callLog, loadLog, returns>>

(* runJSONProgram: read, parse, build the program *)
LoadProgram ==
  /\ pc = "backend"
  /\ IF programFile.kind = "json"
     THEN /\ heap' = <<NewJSONProgram(programFile.data)>>
          /\ pending' = DOMAIN NewJSONProgram(programFile.data).Functions
          /\ pc' = "modifiers"
     ELSE /\ pc' = "fatal"
          /\ UNCHANGED <<heap, pending>>
  /\ UNCHANGED <<stdlibFile, stdlibData, gbFunctions, programFile, files, stack,
                 result, modLog, callLog, loadLog, returns>>

(* applyModifiers: one round of its loop over program.Functions, which Go
   enumerates in no fixed order *)
applyModifiers(funcName) ==
  /\ pc = "modifiers"
  /\ funcName \in pending
  /\ LET funcData == heap[1].Functions[funcName]
         done == applyEach(heap[1].Modifiers, funcData, modifierNames(funcData),
                           1, <<>>)
     IN /\ heap' = [heap EXCEPT ![1].Functions[funcName] = done.funcData]
        /\ modLog' = Put(modLog, funcName, done.log)
  /\ pending' = pending \ {funcName}
  /\ UNCHANGED <<pc, stdlibFile, stdlibData, gbFunctions, programFile, files,
                 stack, result, callLog, loadLog, returns>>

(* runJSONProgram: look main up and call executeFunction on it *)
StartMain ==
  /\ pc = "modifiers"
  /\ pending = {}
  /\ IF ~HasFunction(heap[1], Main)
     THEN pc' = "fatal" /\ UNCHANGED <<stack, result>>
     ELSE LET e == enter(heap, 1, Main, <<>>)
          IN IF e.kind = "value"
             THEN pc' = "done" /\ result' = e.value /\ UNCHANGED stack
             ELSE pc' = "run" /\ stack' = <<e.frame>> /\ UNCHANGED result
  /\ UNCHANGED <<stdlibFile, stdlibData, gbFunctions, programFile, files, heap,
                 pending, modLog, callLog, loadLog, returns>>

top == stack[Len(stack)]
current == actionsOf(heap, top)[top.pc]
running == pc = "run" /\ top.pc <= Len(actionsOf(heap, top))
replaceTop(fr) == [stack EXCEPT ![Len(stack)] = fr]

(* executeFunction: an action that is no function_call *)
Skip ==
  /\ running
  /\ ~isCall(current)
  /\ stack' = replaceTop([top EXCEPT !.pc = @ + 1])
  /\ UNCHANGED <<pc, stdlibFile, stdlibData, gbFunctions, programFile, files,
                 heap, pending, result, modLog, callLog, loadLog, returns>>

CallEvent(prog, action, args, plan, loads, out) ==
  [prog |-> prog, action |-> action, args |-> args, plan |-> plan,
   loads |-> loads, out |-> out]

(* executeFunctionCall without a string `function` *)
MalformedCall ==
  /\ running
  /\ isCall(current)
  /\ ~IsStr(current.o, "function")
  /\ stack' = replaceTop(deliver(top, Err("MissingFunctionField"),
                                 Len(actionsOf(heap, top))))
  /\ callLog' = Append(callLog,
       CallEvent(top.prog, current.o, <<>>, Plan(0, "none", NoModule, NoKey, NoKey),
                 <<>>, [kind |-> "value", value |-> Err("MissingFunctionField")]))
  /\ UNCHANGED <<pc, stdlibFile, stdlibData, gbFunctions, programFile, files,
                 heap, pending, result, modLog, loadLog, returns>>

(* executeFunctionCall that comes back with a value: a backend operation, or
   an Error *)
CallReturns ==
  /\ running
  /\ isCall(current)
  /\ IsStr(current.o, "function")
  /\ \E plan \in plans(heap[top.prog], current.o["function"].s) :
       LET r == executeFunctionCall(heap, files, gbFunctions, top.prog,
                                    current.o, plan)
       IN /\ r.out.kind = "value"
          /\ r.out.value # Panic
          /\ stack' = replaceTop(deliver(top, r.out.value,
                                         Len(actionsOf(heap, top))))
          /\ heap' = r.heap
          /\ loadLog' = loadLog \o r.loads
          /\ callLog' = Append(callLog,
               CallEvent(top.prog, current.o, r.args, plan, r.loads, r.out))
  /\ UNCHANGED <<pc, stdlibFile, stdlibData, gbFunctions, programFile, files,
                 pending, result, modLog, returns>>

(* A backend operation panics: the panic unwinds every activation and the
   process ends *)
CallPanics ==
  /\ running
  /\ isCall(current)
  /\ IsStr(current.o, "function")
  /\ \E plan \in plans(heap[top.prog], current.o["function"].s) :
       LET r == executeFunctionCall(heap, files, gbFunctions, top.prog,
                                    current.o, plan)
       IN /\ r.out.kind = "value"
          /\ r.out.value = Panic
          /\ heap' = r.heap
          /\ loadLog' = loadLog \o r.loads
          /\ callLog' = Append(callLog,
               CallEvent(top.prog, current.o, r.args, plan, r.loads, r.out))
  /\ pc' = "panic"
  /\ UNCHANGED <<stdlibFile, stdlibData, gbFunctions, programFile, files,
                 pending, stack, result, modLog, returns>>

(* executeFunctionCall that recurses into executeFunction, on the same
   program or on a loaded module *)
CallEnters ==
  /\ running
  /\ isCall(current)
  /\ IsStr(current.o, "function")
  /\ Len(stack) < MaxDepth
  /\ \E plan \in plans(heap[top.prog], current.o["function"].s) :
       LET r == executeFunctionCall(heap, files, gbFunctions, top.prog,
                                    current.o, plan)
       IN /\ r.out.kind = "enter"
          /\ stack' = Append(stack, r.out.frame)
          /\ heap' = r.heap
          /\ loadLog' = loadLog \o r.loads
          /\ callLog' = Append(callLog,
               CallEvent(top.prog, current.o, r.args, plan, r.loads, r.out))
  /\ UNCHANGED <<pc, stdlibFile, stdlibData, gbFunctions, programFile, files,
                 pending, result, modLog, returns>>

(* executeFunction returns its running result to the call that entered it *)
Return ==
  /\ pc = "run"
  /\ top.pc > Len(actionsOf(heap, top))
  /\ IF Len(stack) = 1
     THEN /\ result' = top.result
          /\ stack' = <<>>
          /\ pc' = "done"
     ELSE LET caller == stack[Len(stack) - 1]
          IN /\ stack' = SubSeq(stack, 1, Len(stack) - 2) \o
                            <<deliver(caller, top.result,
                                      Len(actionsOf(heap, caller)))>>
             /\ UNCHANGED <<result, pc>>
  /\ returns' = Append(returns, [prog |-> top.prog, func |-> top.func,
                                  hist |-> top.hist, value |-> top.result])
  /\ UNCHANGED <<stdlibFile, stdlibData, gbFunctions, programFile, files, heap,
                 pending, modLog, callLog, loadLog>>

Next ==
  \/ NewGoBackend
  \/ LoadProgram
  \/ \E funcName \in pending : applyModifiers(funcName)
  \/ StartMain
  \/ Skip
  \/ MalformedCall
  \/ CallReturns
  \/ CallPanics
  \/ CallEnters
  \/ Return

Spec == Init /\ [][Next]_vars

(* main() is one thread that runs each step as soon as the one before it is
   over *)
LiveSpec == LiveInit /\ [][Next]_vars /\ WF_vars(Next)

-----------------------------------------------------------------------------
(* Properties *)

loaded == heap # <<>>
program == heap[1]
original == programFile.data["functions"]
visited(f) == loaded /\ f \in DOMAIN program.Functions /\ f \notin pending
listedNames(funcData) ==
  IF "modifiers" \in DOMAIN funcData /\ funcData["modifiers"].k = "arr"
  THEN SelectSeq(funcData["modifiers"].a, LAMBDA m : m.k = "str")
  ELSE <<>>
declares(jp, modifier) ==
  \E i \in 1..Len(jp.Modifiers) :
    /\ jp.Modifiers[i] = modifier
    /\ \A j \in 1..(i - 1) : jp.Modifiers[j]["name"] # modifier["name"]

(* C1: with the modifier M of the example (condition `function.args ==
   undefined`, one assignment of [] to function.args) declared, a function
   that lists M and lacks args has args = [] after applyModifiers, and a
   function that lists M and has args is left as it was. *)
C1_ArgsDefaultOnlyWhenAbsent ==
  \A f \in (IF loaded THEN DOMAIN program.Functions ELSE {}) :
    (/\ visited(f)
     /\ declares(program, ArgsDefault)
     /\ listedNames(original[f]) = <<Nm("M")>>)
    => program.Functions[f] =
         IF "args" \in DOMAIN original[f] THEN original[f]
         ELSE Put(original[f], "args", Arr(<<>>))

(* C2: when stdlib.go.json is absent or unparseable the backend has every
   default operation name registered against its built-in implementation,
   and execute("add", 2, 3) is 5. *)
C2_DefaultsWithoutDescriptor ==
  (pc # "start" /\ stdlibFile.kind \in {"absent", "garbage"})
  => /\ \A e \in DefaultTable :
          <<e[1]>> \in DOMAIN gbFunctions /\ gbFunctions[<<e[1]>>] = e[2]
     /\ ExecuteFunction(gbFunctions, <<"add">>, <<Num(2), Num(3)>>) = Num(5)

(* C9 as stated: no modifier runs its actions more than once on one
   function, whatever the function's list names, and a function's modifiers
   are applied in the order the function lists them. *)
C9_AtMostOncePerFunction ==
  \A f \in (IF loaded THEN DOMAIN program.Functions ELSE {}) :
    visited(f) =>
      /\ \A i, j \in 1..Len(modLog[f]) :
           (/\ i < j
            /\ modLog[f][i].modifier = modLog[f][j].modifier
            /\ modLog[f][i].ran)
           => ~modLog[f][j].ran
      /\ \A i \in 2..Len(modLog[f]) : modLog[f][i].before = modLog[f][i - 1].after

(* C9, amended: applyModifier is called once for every occurrence of a name
   in the function's list, in the order of the list, each call starting
   from the definition the call before it left; a call that does not reach
   the actions changes nothing. *)
C9_OncePerListedOccurrence ==
  \A f \in (IF loaded THEN DOMAIN program.Functions ELSE {}) :
    visited(f) =>
      LET log == modLog[f]
          names == listedNames(original[f])
      IN /\ Len(log) = Len(names)
         /\ \A i \in 1..Len(log) :
              /\ log[i].modifier = names[i]
              /\ log[i].before = IF i = 1 THEN original[f] ELSE log[i - 1].after
              /\ ~log[i].ran => log[i].after = log[i].before
         /\ program.Functions[f] =
              IF log = <<>> THEN original[f] ELSE log[Len(log)].after

(* C9 witness: a function whose list names one modifier twice in a row has
   had it run twice, the second run overwriting what a modifier between
   would have kept. *)
C9_Witness ==
  \E f \in (IF loaded THEN DOMAIN program.Functions ELSE {}) :
    /\ visited(f)
    /\ Len(modLog[f]) = 3
    /\ modLog[f][1].modifier = Nm("A") /\ modLog[f][1].ran
    /\ modLog[f][2].modifier = Nm("B") /\ ~modLog[f][2].ran
    /\ modLog[f][3].modifier = Nm("A") /\ modLog[f][3].ran
    /\ "visibility" \notin DOMAIN original[f]
    /\ program.Functions[f]["visibility"] = Nm("public")

(* What the specification's rule 2 does with a reference string *)
ruleTwo(ref) ==
  IF Len(ref) >= 2 /\ ref[1] # "jsonlang"
  THEN [via |-> "module", module |-> SubSeq(ref, 1, Len(ref) - 1),
        name |-> <<ref[Len(ref)]>>]
  ELSE [via |-> "backend", module |-> <<>>, name |-> <<ref[Len(ref)]>>]
toBackend(name) == [via |-> "backend", module |-> <<>>, name |-> name]
toFunction(name) == [via |-> "user", module |-> <<>>, name |-> name]

(* Call e ran executeFunction on function func of instance prog *)
calledOn(e, prog, func) ==
  IF "actions" \in DOMAIN heap[prog].Functions[func]
     /\ heap[prog].Functions[func]["actions"].k = "arr"
  THEN /\ e.out.kind = "enter"
       /\ e.out.frame.prog = prog
       /\ e.out.frame.func = func
       /\ e.out.frame.args = e.args
  ELSE e.out = [kind |-> "value", value |-> Err("MissingActions")]

(* Call e was resolved as d says: the backend operation executed, the
   function of the same program run, or the module loaded and its function
   run *)
dispatchedTo(e, d) ==
  /\ e.plan.via = d.via
  /\ CASE d.via = "backend" ->
            /\ e.loads = <<>>
            /\ e.out = [kind |-> "value",
                        value |-> ExecuteFunction(gbFunctions, d.name, e.args)]
       [] d.via = "user" ->
            /\ e.loads = <<>>
            /\ calledOn(e, e.prog, d.name)
       [] OTHER ->
            /\ Len(e.loads) = 1
            /\ e.loads[1].prog = e.prog
            /\ e.loads[1].modulePath = d.module
            /\ IF e.loads[1].module = 0
               THEN e.out.kind = "value" /\ e.out.value.k = "err"
               ELSE IF d.name \in DOMAIN heap[e.loads[1].module].Functions
               THEN calledOn(e, e.loads[1].module, d.name)
               ELSE e.out = [kind |-> "value",
                             value |-> Err("ModuleFunctionNotFound")]

returned(e, value) == e.out.kind = "value" /\ e.out.value = value
named(e) == "function" \in DOMAIN e.action /\ e.action["function"].k = "str"
nameOf(e) == e.action["function"].s
isFunctionOf(e) == nameOf(e) \in DOMAIN heap[e.prog].Functions
isImportOf(e) == nameOf(e) \in DOMAIN heap[e.prog].Imports
isPrefixed(e) == Len(nameOf(e)) >= 2 /\ nameOf(e)[1] = "imports"
reverseOnly(e) == named(e) /\ ~isFunctionOf(e) /\ ~isImportOf(e) /\ isPrefixed(e)
entriesFor(e) ==
  { key \in DOMAIN heap[e.prog].Imports :
      heap[e.prog].Imports[key] = Tail(nameOf(e)) }

(* C3 as stated: a call of imports.X that only the reverse lookup can
   resolve is resolved by rule 2 applied to the reference string (the value,
   X) of an entry whose value is X, and goes to the backend as X when there
   is no such entry. *)
C3_ReverseLookupUsesReference ==
  \A i \in DOMAIN callLog :
    reverseOnly(callLog[i]) =>
      IF entriesFor(callLog[i]) # {}
      THEN dispatchedTo(callLog[i], ruleTwo(Tail(nameOf(callLog[i]))))
      ELSE dispatchedTo(callLog[i], toBackend(Tail(nameOf(callLog[i]))))

(* C3, amended: such a call is resolved by rule 2 applied to the key of one
   entry whose value is X, or goes to the backend as X when that key is the
   empty string; with no such entry it goes to the backend as X. *)
C3_ReverseLookupUsesKey ==
  \A i \in DOMAIN callLog :
    reverseOnly(callLog[i]) =>
      IF entriesFor(callLog[i]) # {}
      THEN \E key \in entriesFor(callLog[i]) :
             IF key = <<"">>
             THEN dispatchedTo(callLog[i], toBackend(Tail(nameOf(callLog[i]))))
             ELSE dispatchedTo(callLog[i], ruleTwo(key))
      ELSE dispatchedTo(callLog[i], toBackend(Tail(nameOf(callLog[i]))))

(* C3 witness: imports.times, whose only entry is jsonlang.math.multiply ->
   times, has run the backend's multiply; imports.subtract, with no entry,
   the backend's subtract. *)
C3_Witness ==
  /\ \E i \in DOMAIN callLog :
       /\ reverseOnly(callLog[i])
       /\ named(callLog[i]) /\ nameOf(callLog[i]) = <<"imports", "times">>
       /\ entriesFor(callLog[i]) = {<<"jsonlang", "math", "multiply">>}
       /\ returned(callLog[i], Num(6))
  /\ \E i \in DOMAIN callLog :
       /\ reverseOnly(callLog[i])
       /\ entriesFor(callLog[i]) = {}
       /\ named(callLog[i]) /\ nameOf(callLog[i]) = <<"imports", "subtract">>
       /\ returned(callLog[i], Num(2))

(* C4: every call is resolved by the first tier that matches and by that one
   alone: a function of the program is run; else an imports key is resolved
   through its reference; else an imports.-prefixed name goes through the
   reverse lookup; else the name goes unchanged to the backend. *)
C4_FirstMatchingTierOnly ==
  \A i \in DOMAIN callLog :
    LET e == callLog[i]
    IN named(e) =>
         CASE isFunctionOf(e) ->
                e.plan.tier = 1 /\ dispatchedTo(e, toFunction(nameOf(e)))
           [] ~isFunctionOf(e) /\ isImportOf(e) ->
                /\ e.plan.tier = 2
                /\ dispatchedTo(e, ruleTwo(heap[e.prog].Imports[nameOf(e)]))
           [] ~isFunctionOf(e) /\ ~isImportOf(e) /\ isPrefixed(e) ->
                /\ e.plan.tier = 3
                /\ IF entriesFor(e) = {} THEN e.plan.key = NoKey
                   ELSE e.plan.key \in entriesFor(e)
           [] OTHER ->
                e.plan.tier = 4 /\ dispatchedTo(e, toBackend(nameOf(e)))

(* C4 witness: in one run, a name that is a function and an imports key has
   run the function, a name that is a function and a backend operation has
   run the function, and an imports.-prefixed imports key has been resolved
   through its reference. *)
C4_Witness ==
  /\ \E i \in DOMAIN callLog :
       /\ named(callLog[i]) /\ nameOf(callLog[i]) = <<"shadow">>
       /\ isFunctionOf(callLog[i]) /\ isImportOf(callLog[i])
       /\ callLog[i].out.kind = "enter"
  /\ \E i \in DOMAIN callLog :
       /\ named(callLog[i]) /\ nameOf(callLog[i]) = <<"subtract">>
       /\ isFunctionOf(callLog[i]) /\ <<"subtract">> \in DOMAIN gbFunctions
       /\ callLog[i].out.kind = "enter"
  /\ \E i \in DOMAIN callLog :
       /\ named(callLog[i]) /\ nameOf(callLog[i]) = <<"imports", "k">>
       /\ isImportOf(callLog[i]) /\ isPrefixed(callLog[i])
       /\ returned(callLog[i], Num(4))
  /\ \E i \in DOMAIN callLog :
       /\ named(callLog[i]) /\ nameOf(callLog[i]) = <<"add">>
       /\ callLog[i].prog = 1
       /\ callLog[i].plan.tier = 4

(* C5: a call of an imports key with reference ref goes to the backend
   operation named by ref's last segment, and loads no module, when ref
   starts with jsonlang.; loads the module named by ref up to its last "."
   and runs the function named after it there (ModuleFunctionNotFound when
   the module lacks it) when ref has a "." and no jsonlang. prefix; and goes
   to the backend operation ref when ref has no ".". *)
C5_ImportReferenceForms ==
  \A i \in DOMAIN callLog :
    LET e == callLog[i]
        ref == heap[e.prog].Imports[nameOf(e)]
    IN (named(e) /\ ~isFunctionOf(e) /\ isImportOf(e)) =>
         IF Len(ref) >= 2 /\ ref[1] = "jsonlang"
         THEN dispatchedTo(e, toBackend(<<ref[Len(ref)]>>))
         ELSE IF Len(ref) >= 2
         THEN dispatchedTo(e, [via |-> "module",
                               module |-> SubSeq(ref, 1, Len(ref) - 1),
                               name |-> <<ref[Len(ref)]>>])
         ELSE dispatchedTo(e, toBackend(ref))

(* C5 witness: in one run jsonlang.math.add has run add, pkg.sub.helper has
   loaded pkg.sub and run helper there, pkg.sub.nothere has found no such
   function, and the undotted reference add has run add. *)
C5_Witness ==
  /\ \E i \in DOMAIN callLog :
       /\ named(callLog[i]) /\ nameOf(callLog[i]) = <<"plus">>
       /\ returned(callLog[i], Num(5))
       /\ callLog[i].loads = <<>>
  /\ \E i \in DOMAIN callLog :
       /\ named(callLog[i]) /\ nameOf(callLog[i]) = <<"h">>
       /\ callLog[i].loads # <<>>
       /\ callLog[i].loads[1].modulePath = <<"pkg", "sub">>
       /\ callLog[i].out.kind = "enter"
       /\ callLog[i].out.frame.func = <<"helper">>
  /\ \E i \in DOMAIN callLog :
       /\ named(callLog[i]) /\ nameOf(callLog[i]) = <<"gone">>
       /\ returned(callLog[i], Err("ModuleFunctionNotFound"))
  /\ \E i \in DOMAIN callLog :
       /\ named(callLog[i]) /\ nameOf(callLog[i]) = <<"bare">>
       /\ returned(callLog[i], Num(3))

isFunctionCall(a) ==
  a.k = "obj" /\ "type" \in DOMAIN a.o /\ a.o["type"] = Nm("function_call")
actionList(prog, func) == heap[prog].Functions[func]["actions"].a
lastResult(hist) == IF hist = <<>> THEN Nil ELSE hist[Len(hist)].result

(* hist holds the function_call actions among the first n of actions, each
   once, in the order of the list *)
dispatchedInOrder(hist, actions, n) ==
  LET calls == { i \in 1..n : isFunctionCall(actions[i]) }
  IN /\ Len(hist) = Cardinality(calls)
     /\ \A m \in 1..Len(hist) :
          /\ hist[m].index \in calls
          /\ Cardinality({ j \in calls : j < hist[m].index }) = m - 1

(* C6: executeFunction dispatches every function_call action of the list
   once, in list order, whether or not an earlier call returned an Error,
   passes over every other action, and returns the result of the last
   function_call, or nil when the list has none. *)
C6_EveryCallOnceLastResult ==
  /\ \A d \in DOMAIN stack :
       /\ dispatchedInOrder(stack[d].hist,
                            actionList(stack[d].prog, stack[d].func),
                            stack[d].pc - 1)
       /\ stack[d].result = lastResult(stack[d].hist)
  /\ \A r \in DOMAIN returns :
       /\ dispatchedInOrder(returns[r].hist,
                            actionList(returns[r].prog, returns[r].func),
                            Len(actionList(returns[r].prog, returns[r].func)))
       /\ returns[r].value = lastResult(returns[r].hist)
  /\ (pc = "done" /\ returns # <<>>) => result = returns[Len(returns)].value

(* C6 witness: an activation has returned the number of its last call after
   an earlier call of it returned an Error and an action between was passed
   over. *)
C6_Witness ==
  \E r \in DOMAIN returns :
    /\ Len(returns[r].hist) = 2
    /\ Len(actionList(returns[r].prog, returns[r].func)) = 3
    /\ returns[r].hist[1].result.k = "err"
    /\ returns[r].hist[2].index = 3
    /\ returns[r].value = Num(5)

(* C7: a LoadModule call for a reference that an earlier call on the same
   program loaded returns the instance that first load made and reads no
   file; the cache keys of a program are the references of its successful
   loads; every successful load makes an instance of its own, so two
   references that lead to one file are two entries and two reads. *)
C7_CacheByLiteralReference ==
  /\ \A i \in DOMAIN loadLog :
       LET e == loadLog[i]
           firsts == { j \in 1..(i - 1) :
                         /\ loadLog[j].prog = e.prog
                         /\ loadLog[j].modulePath = e.modulePath
                         /\ loadLog[j].outcome = "loaded" }
       IN IF firsts # {}
          THEN /\ e.outcome = "cached"
               /\ e.file = NoFile
               /\ e.module = loadLog[CHOOSE j \in firsts :
                                       \A h \in firsts : j <= h].module
          ELSE e.outcome # "cached" /\ (e.outcome = "loaded" => e.file # NoFile)
  /\ \A p \in DOMAIN heap :
       /\ DOMAIN heap[p].LoadedModules =
            { loadLog[j].modulePath :
                j \in { h \in DOMAIN loadLog :
                          loadLog[h].prog = p /\ loadLog[h].outcome = "loaded" } }
       /\ \A j \in DOMAIN loadLog :
            (loadLog[j].prog = p /\ loadLog[j].outcome = "loaded")
            => heap[p].LoadedModules[loadLog[j].modulePath] = loadLog[j].module
  /\ \A i, j \in DOMAIN loadLog :
       (i # j /\ loadLog[i].outcome = "loaded" /\ loadLog[j].outcome = "loaded")
       => loadLog[i].module # loadLog[j].module

(* C7 witness: pkg.sub and sub have both been loaded from sub.json into two
   instances, and a later call for pkg.sub got the first of them back. *)
C7_Witness ==
  \E i, j, h \in DOMAIN loadLog :
    /\ i < j /\ j < h
    /\ loadLog[i].prog = 1 /\ loadLog[j].prog = 1 /\ loadLog[h].prog = 1
    /\ loadLog[i].modulePath = PkgSub /\ loadLog[i].file = SubJson
    /\ loadLog[j].modulePath = Sub /\ loadLog[j].file = SubJson
    /\ loadLog[i].outcome = "loaded" /\ loadLog[j].outcome = "loaded"
    /\ loadLog[i].module # loadLog[j].module
    /\ loadLog[h].modulePath = PkgSub /\ loadLog[h].outcome = "cached"
    /\ loadLog[h].module = loadLog[i].module

(* C8: on a cache miss LoadModule takes the first that exists of
   reference.json, reference, last-segment.json, last-segment, builds the
   program from it, and fails with ModuleNotFound when none exists; a file
   that cannot be read or parsed fails the call, with no later candidate
   tried. *)
C8_FirstExistingCandidate ==
  \A i \in DOMAIN loadLog :
    LET e == loadLog[i]
        ref == e.modulePath
        candidates == << ref \o <<"json">>, ref,
                         <<ref[Len(ref)], "json">>, <<ref[Len(ref)]>> >>
        existing == { c \in 1..4 : candidates[c] \in DOMAIN files }
        first == candidates[CHOOSE c \in existing : \A d \in existing : c <= d]
    IN e.outcome # "cached" =>
         IF existing = {}
         THEN e.outcome = "ModuleNotFound" /\ e.module = 0
         ELSE /\ e.file = first
              /\ IF files[first].kind = "json"
                 THEN /\ e.outcome = "loaded"
                      /\ heap[e.module].Functions = files[first].data["functions"]
                 ELSE /\ e.module = 0
                      /\ e.outcome \in {"ModuleParseError", "ModuleReadError"}

(* C8 witness: with sub.json the only candidate on disk, pkg.sub has been
   loaded from sub.json. *)
C8_Witness ==
  /\ PkgSubJson \notin DOMAIN files
  /\ PkgSub \notin DOMAIN files
  /\ Sub \in DOMAIN files
  /\ \E i \in DOMAIN loadLog :
       /\ loadLog[i].modulePath = PkgSub
       /\ loadLog[i].file = SubJson
       /\ loadLog[i].outcome = "loaded"

(* What the specification makes of one argument descriptor *)
unwrapped(d) ==
  IF /\ d.k = "obj"
     /\ "type" \in DOMAIN d.o
     /\ d.o["type"].k = "str"
     /\ "value" \in DOMAIN d.o
     /\ \/ d.o["type"].s \in {<<"String">>, <<"imports", "String">>}
           /\ d.o["value"].k = "str"
        \/ d.o["type"].s \in {<<"Number">>, <<"imports", "Number">>}
           /\ d.o["value"].k = "num"
        \/ d.o["type"].s \in {<<"Boolean">>, <<"imports", "Boolean">>}
           /\ d.o["value"].k = "bool"
  THEN d.o["value"]
  ELSE d

(* C10: the arguments a call hands on are as many as the action lists, in
   the same order, each the scalar of a well-formed String, Number or
   Boolean descriptor, and each other argument unchanged. *)
C10_ArgumentsUnwrappedOrUnchanged ==
  \A i \in DOMAIN callLog :
    LET e == callLog[i]
        argsData == IF "args" \in DOMAIN e.action /\ e.action["args"].k = "arr"
                    THEN e.action["args"].a ELSE <<>>
    IN named(e) =>
         /\ Len(e.args) = Len(argsData)
         /\ \A j \in 1..Len(argsData) : e.args[j] = unwrapped(argsData[j])

(* A call of the log that went to the registered backend operation `name` *)
executed(e, name) ==
  /\ e.plan.via = "backend"
  /\ e.plan.name = name
  /\ name \in DOMAIN gbFunctions

inRange(index, list) == 0 <= index /\ index < Len(list)

(* C11: on a backend that has them registered, divide by a second argument
   that coerces to 0 is an Error; array_get on a first argument that is no
   list, or at an index outside [0,len), is an Error; with fewer than two
   arguments both give a default that is no Error, whatever the shape of the
   argument; otherwise divide gives the quotient, array_get the element and
   add the sum; none of them panics. *)
C11_EdgePolicies ==
  \A i \in DOMAIN callLog :
    LET e == callLog[i]
        v == e.out.value
    IN /\ executed(e, <<"divide">>) =>
            /\ e.out.kind = "value" /\ v # Panic
            /\ IF Len(e.args) < 2 THEN v = Num(0)
               ELSE IF toNumber(e.args[2]) = 0 THEN v.k = "err"
               ELSE /\ v.k = "num"
                    /\ IF "n" \in DOMAIN v
                       THEN v.n * toNumber(e.args[2]) = toNumber(e.args[1])
                       ELSE /\ v.num = toNumber(e.args[1])
                            /\ v.den = toNumber(e.args[2])
       /\ executed(e, <<"array_get">>) =>
            /\ e.out.kind = "value" /\ v # Panic
            /\ IF Len(e.args) < 2 THEN v = Nil
               ELSE IF e.args[1].k # "arr" THEN v.k = "err"
               ELSE IF ~inRange(toNumber(e.args[2]), e.args[1].a) THEN v.k = "err"
               ELSE v = e.args[1].a[toNumber(e.args[2]) + 1]
       /\ executed(e, <<"add">>) =>
            /\ e.out.kind = "value" /\ v # Panic
            /\ IF Len(e.args) < 2 THEN v = Num(0)
               ELSE v = Num(toNumber(e.args[1]) + toNumber(e.args[2]))

(* C11 witness: array_get([1,2,3], 5) has returned an Error. *)
C11_Witness ==
  \E i \in DOMAIN callLog :
    /\ executed(callLog[i], <<"array_get">>)
    /\ callLog[i].args = <<Arr(<<Num(1), Num(2), Num(3)>>), Num(5)>>
    /\ callLog[i].out.value.k = "err"

(* C14: substring(s, start[, end]) on a string s and whole numbers start and
   end returns a string that is a contiguous slice of s, and never panics. *)
C14_SubstringTotal ==
  \A i \in DOMAIN callLog :
    LET e == callLog[i]
        v == e.out.value
    IN (/\ executed(e, <<"substring">>)
        /\ Len(e.args) >= 2
        /\ IsText(e.args[1])
        /\ \A j \in 2..Len(e.args) : e.args[j].k = "num")
       => /\ e.out.kind = "value"
          /\ v # Panic
          /\ IsText(v)
          /\ \E a, b \in 0..Len(e.args[1].c) :
               a <= b /\ v.c = SubSeq(e.args[1].c, a + 1, b)

(* Interpretation has started: runJSONProgram is past the modifier pass *)
started == pc \in {"run", "done", "panic"}

(* C12: the modifier pass is over, with every function of the top-level
   program visited, before main starts, and visits no function a second
   time; a program LoadModule made holds the function definitions of its
   file as they were read, modifiers declared and listed or not; no function
   definition of any program changes once interpretation has started. *)
C12_ModifierPassTopLevelOnce ==
  /\ [](started => pending = {} /\ DOMAIN modLog = DOMAIN heap[1].Functions)
  /\ [](\A i \in DOMAIN loadLog :
          loadLog[i].outcome = "loaded" =>
            heap[loadLog[i].module].Functions =
              files[loadLog[i].file].data["functions"])
  /\ [][ /\ \A f \in DOMAIN modLog :
              /\ f \in DOMAIN modLog' /\ modLog'[f] = modLog[f]
              /\ heap'[1].Functions[f] = heap[1].Functions[f]
         /\ started => \A p \in DOMAIN heap :
                         heap'[p].Functions = heap[p].Functions ]_vars

(* C12 witness: a module that declares the modifier its function lists has
   been loaded and that function has run to its end, while the modifier,
   whose condition the function meets, has set no args on it. *)
C12_Witness ==
  \E i \in DOMAIN loadLog, r \in DOMAIN returns :
    LET m == loadLog[i].module
    IN /\ loadLog[i].outcome = "loaded"
       /\ heap[m].Modifiers # <<>>
       /\ returns[r].prog = m
       /\ returns[r].func = <<"helper">>
       /\ runsActions(heap[m].Modifiers, heap[m].Functions[<<"helper">>], Nm("M"))
       /\ "args" \notin DOMAIN heap[m].Functions[<<"helper">>]

declaredNames(jp) ==
  { jp.Modifiers[i]["name"] :
      i \in { j \in 1..Len(jp.Modifiers) : "name" \in DOMAIN jp.Modifiers[j] } }

(* C13: a function none of whose listed names is the name of a modifier
   definition of the program is, once visited, as it was read; a listed name
   with no definition changes nothing and the names listed after it are
   still applied; the pass goes on to every other function; in a program
   without modifier definitions every function stays as read. *)
C13_UnmatchedNamesChangeNothing ==
  /\ \A f \in (IF loaded THEN DOMAIN program.Functions ELSE {}) :
       visited(f) =>
         LET log == modLog[f]
             names == listedNames(original[f])
         IN /\ (\A n \in 1..Len(names) : names[n] \notin declaredNames(program))
               => program.Functions[f] = original[f]
            /\ Len(log) = Len(names)
            /\ \A n \in 1..Len(log) :
                 log[n].modifier \notin declaredNames(program)
                 => log[n].after = log[n].before
            /\ program.Modifiers = <<>> => program.Functions[f] = original[f]
  /\ started => \A f \in DOMAIN program.Functions : visited(f)

(* C13 witness: one function lists only a name without definition and is
   unchanged, while another lists such a name and then A, and A has set its
   visibility. *)
C13_Witness ==
  /\ visited(Unmatched) /\ visited(Target)
  /\ listedNames(original[Unmatched]) = <<Nm("ghost")>>
  /\ program.Modifiers # <<>>
  /\ program.Functions[Unmatched] = original[Unmatched]
  /\ listedNames(original[Target]) = <<Nm("ghost"), Nm("A")>>
  /\ "visibility" \notin DOMAIN original[Target]
  /\ program.Functions[Target]["visibility"] = Nm("public")

(* C15: a backend built from a descriptor that binds every default name to
   the implementation id of the same name has the names of default
   registration registered, each bound to the implementation default
   registration binds it to. *)
C15_IdentityDescriptorIsDefault ==
  (pc # "start" /\ stdlibFile = IdentityDescriptor)
  => /\ DOMAIN gbFunctions = DOMAIN registerDefaultFunctions
     /\ \A name \in DOMAIN registerDefaultFunctions :
          name \in DOMAIN gbFunctions
          => gbFunctions[name] = registerDefaultFunctions[name]

(* The call graph of the program files: the activations a call of func in
   the program of `data` can enter, through every tier and module file *)
activates(data, func) ==
  /\ func \in DOMAIN NewJSONProgram(data).Functions
  /\ IsArr(NewJSONProgram(data).Functions[func], "actions")

callNames(funcData) ==
  { funcData["actions"].a[i].o["function"].s :
      i \in { j \in 1..Len(funcData["actions"].a) :
                /\ isFunctionCall(funcData["actions"].a[j])
                /\ IsStr(funcData["actions"].a[j].o, "function") } }

callees(data, func) ==
  LET jp == NewJSONProgram(data)
      file(p) == moduleFileOf(files, p.module)
      target(p) ==
        CASE p.via = "user" -> { [data |-> data, func |-> p.name] }
          [] p.via = "backend" -> {}
          [] OTHER ->
               IF file(p) # NoFile /\ files[file(p)].kind = "json"
               THEN { [data |-> files[file(p)].data, func |-> p.name] }
               ELSE {}
  IN UNION { UNION { target(p) : p \in plans(jp, name) } :
               name \in callNames(jp.Functions[func]) }

Largest(S) == CHOOSE x \in S : \A y \in S : y <= x

(* The longest chain of activations from func, counted up to `fuel` *)
RECURSIVE longestChain(_, _, _)
longestChain(data, func, fuel) ==
  IF fuel = 0 \/ ~activates(data, func) THEN 0
  ELSE 1 + Largest({0} \cup { longestChain(t.data, t.func, fuel - 1) :
                               t \in callees(data, func) })

Halting == { "exit", "sleep", "input" }

quiet(data) ==
  \A f \in DOMAIN NewJSONProgram(data).Functions :
    IsArr(NewJSONProgram(data).Functions[f], "actions") =>
      \A name \in callNames(NewJSONProgram(data).Functions[f]) :
        name[Len(name)] \notin Halting

chainOfMain ==
  IF programFile.kind = "json"
  THEN longestChain(programFile.data, Main, MaxDepth + 1) ELSE 0

(* A program with an acyclic call graph that calls no blocking or exiting
   operation *)
acyclicAndQuiet ==
  /\ programFile.kind = "json"
  /\ chainOfMain <= MaxDepth
  /\ quiet(programFile.data)
  /\ \A path \in DOMAIN files :
       files[path].kind = "json" => quiet(files[path].data)

(* C16: executeFunction on main of a program whose call graph is acyclic and
   which calls no blocking or exiting operation comes back with a value, and
   the number of nested activations reaches, and never exceeds, the longest
   chain of calls of the graph. *)
C16_AcyclicProgramsReturn ==
  /\ (pc = "run" /\ acyclicAndQuiet) ~> (pc = "done")
  /\ [](acyclicAndQuiet =>
          Len(stack) <= chainOfMain)
  /\ (pc = "start" /\ acyclicAndQuiet /\ chainOfMain >= 1) ~>
       (Len(stack) = chainOfMain)

====
